---- MODULE Spec2Model ----
(***************************************************************************)
(* The negative-sampling data loaders of src/data/dataloader.py            *)
(* (AbstractDataLoader, NegSampleBasedDataLoader,                          *)
(* GeneralInteractionBasedDataLoader, GeneralGroupedDataLoader) and the    *)
(* Interaction container of src/data/interaction.py, as one state machine: *)
(* one loader is constructed over a dataset and then driven by next() and  *)
(* set_batch_size() calls (Spec).  A second state machine                  *)
(* (InteractionSpec) converts one table slice to an Interaction and then   *)
(* drives the Interaction's own methods.                                   *)
(*                                                                         *)
(* A table (pandas DataFrame) and an Interaction are ordered mappings: a   *)
(* sequence of [name, values] columns.  A tensor is                        *)
(* [dtype, device, shape, data], data laid out along the first axis.       *)
(***************************************************************************)
EXTENDS Integers, Sequences, FiniteSets, TLC

\* ---------------------------------------------------------------- bounds
NumUsers == 2
MaxPos == 5
MaxBy == 2
MaxTo == 4
MaxBatch == 3
ExampleBatch == 9
MaxPasses == 1
MaxRows == 3
MaxSeqLen == 2
MaxRepeat == 2
PagingUsers == 4

\* Item ids are 1..item_num; every user keeps at least one non-positive item.
item_num == MaxPos + 1

\* ------------------------------------------------- config[...] field names
uid_field == "user_id"
iid_field == "item_id"
label_field == "label"
neg_prefix == "neg_"
neg_item_id == "neg_item_id"

\* ------------------------------------------------------ ordered mappings
Min(a, b) == IF a < b THEN a ELSE b
Max(a, b) == IF a > b THEN a ELSE b

Column(k, v) == [name |-> k, values |-> v]

Names(t) == {t[i].name : i \in 1..Len(t)}

Has(t, k) == k \in Names(t)

Get(t, k) == t[CHOOSE i \in 1..Len(t) : t[i].name = k].values

\* t[k] = v of a dict / DataFrame: overwrite in place, or append a new key.
Put(t, k, v) ==
    IF Has(t, k)
    THEN [i \in 1..Len(t) |-> IF t[i].name = k THEN Column(k, v) ELSE t[i]]
    ELSE Append(t, Column(k, v))

\* len(DataFrame): the row count.
Rows(t) == IF Len(t) = 0 THEN 0 ELSE Len(t[1].values)

\* Python s[a:b] for 0 <= a, any b (a negative b counts from the end).
PySlice(s, a, b) ==
    LET e == IF b < 0 THEN Max(Len(s) + b, 0) ELSE Min(b, Len(s))
    IN  IF a >= e THEN <<>> ELSE SubSeq(s, a + 1, e)

\* DataFrame[a:b]: every column sliced alike.
SliceTable(t, a, b) ==
    [i \in 1..Len(t) |-> Column(t[i].name, PySlice(t[i].values, a, b))]

Repeat(s, n) == [i \in 1..(Len(s) * n) |-> s[((i - 1) % Len(s)) + 1]]

\* pd.concat([t] * n, ignore_index=True)
ConcatTimes(t, n) == [i \in 1..Len(t) |-> Column(t[i].name, Repeat(t[i].values, n))]

\* np.zeros(n)
Zeros(n) == [i \in 1..n |-> 0]

\* buf[a:b] = vals (vals a sequence), numpy slice assignment.
AssignSlice(buf, a, b, vals) ==
    [i \in 1..Len(buf) |-> IF a < i /\ i <= b THEN vals[i - a] ELSE buf[i]]

\* buf[a:b] = x (x a scalar, broadcast).
FillSlice(buf, a, b, x) ==
    [i \in 1..Len(buf) |-> IF a < i /\ i <= b THEN x ELSE buf[i]]

RECURSIVE Flatten(_)
Flatten(ss) == IF Len(ss) = 0 THEN <<>> ELSE Head(ss) \o Flatten(Tail(ss))

\* ------------------------------------------------------------- the state
VARIABLES
    pc,               \* "new" | "ready" | "failed": construction of the loader
    kind,             \* "inter" | "grouped": the loader class constructed
    dl_format,        \* constructor argument
    shuffle,          \* constructor argument, self.shuffle
    neg_sample_args,  \* the (mutable, caller-owned) settings mapping
    arg_batch_size,   \* the batch size the caller asked for
    batch_size,       \* self.batch_size
    step,             \* self.step (0: not set)
    times,            \* self.times (0: not set)
    pr,               \* self.pr
    full,             \* self.full
    next,             \* self.next: cursor -> next cursor (<<>>: not set)
    inter_feat,       \* dataset.inter_feat
    uid2items,        \* self.uid2items
    field2type,       \* dataset.field2type
    op,               \* the last call made on the loader
    result,           \* how that call ended
    batch,            \* the Interaction that call returned (NoBatch: none)
    shuffle_calls,    \* _shuffle() calls made by that call
    sampling,         \* the _neg_sampling() call made by that call (NoSampling: none)
    passes,           \* passes completed so far
    ipc,              \* "off" | "frame" | "held" | "failed": the Interaction machine
    frame,            \* the table slice given to _dataframe_to_interaction
    self_inter,       \* the Interaction the methods are called on
    other_inter,      \* the Interaction passed to update() as new_inter
    iop,              \* the last call made on self_inter, with its arguments
    ret               \* what that call returned or raised

\* The variables of the Interaction machine.
ivars == <<ipc, frame, self_inter, other_inter, iop, ret>>

vars == <<pc, kind, dl_format, shuffle, neg_sample_args, arg_batch_size, batch_size,
          step, times, pr, full, next, inter_feat, uid2items, field2type,
          op, result, batch, shuffle_calls, sampling, passes, ivars>>

NoLength == -1
NoBatch == [interaction |-> <<>>, length |-> NoLength]
NoSampling == [called |-> FALSE, input |-> <<>>, neg_iids |-> <<>>, output |-> <<>>]

real_time_neg_samplingMutant == FALSE
real_time_neg_sampling == neg_sample_args.real_time
neg_sample_by == neg_sample_args.by

\* --------------------------------------------------------------- sampler
\* The statistical sampler is an external collaborator: it is modelled from
\* its call contract.  `seed` stands for its random state.
SortedSeq(S) ==
    [i \in 1..Cardinality(S) |-> CHOOSE x \in S : Cardinality({y \in S : y < x}) = i - 1]

\* The positive items the sampler knows for a user.
PosItemsOf(u2i, uid) ==
    LET us == Get(u2i, uid_field)
    IN  Get(u2i, iid_field)[CHOOSE i \in 1..Len(us) : us[i] = uid]

NonPos(u2i, uid) ==
    LET pos == PosItemsOf(u2i, uid)
    IN  SortedSeq({it \in 1..item_num : \A j \in 1..Len(pos) : pos[j] # it})

\* sampler.sample_by_user_id(phase, uid, k): k negative ids of the user.
sample_by_user_id(u2i, uid, k, seed) ==
    LET np == NonPos(u2i, uid)
    IN  [j \in 1..k |-> np[((seed + j) % Len(np)) + 1]]

\* sampler.sample_full_by_user_id(phase, uid): every non-positive item.
sample_full_by_user_id(u2i, uid) == NonPos(u2i, uid)

\* sampler.sample_by_user_ids(phase, uids, k): k ids per user, aligned with uids.
sample_by_user_ids(u2i, uids, k, seed) ==
    [m \in 1..(Len(uids) * k) |->
        LET idx == ((m - 1) \div k) + 1
            np  == NonPos(u2i, uids[idx])
        IN  np[((seed + idx + m) % Len(np)) + 1]]

Seeds == 0..1

\* --------------------------------------------------------------- dataset
\* The dataset is an external collaborator too: len(), slicing, join() and
\* shuffle() follow the contract the loaders rely on.
DatasetLen == Rows(inter_feat)

DatasetSlice(a, b) == SliceTable(inter_feat, a, b)

\* dataset.join(df): adds user/item feature columns; this dataset has none.
DatasetJoin(df) == df

\* The row orders a shuffle may leave a table of n rows in: a sample of the
\* permutations (identity, reversal, rotation by one).
ShuffleOrders(n) ==
    { [i \in 1..n |-> i],
      [i \in 1..n |-> n + 1 - i],
      [i \in 1..n |-> (i % n) + 1] }

Permute(t, p) ==
    [c \in 1..Len(t) |-> Column(t[c].name, [i \in 1..Len(p) |-> t[c].values[p[i]]])]

\* ------------------------------------------------------------ Interaction
\* A 1-D tensor built from a list, on the default device.
Tensor(dtype, d) == [dtype |-> dtype, device |-> "cpu", shape |-> <<Len(d)>>, data |-> d]

LongTensor(d) == Tensor("int64", d)
FloatTensor(d) == Tensor("float32", d)

\* Interaction.__init__: length is the first field's shape[0].
InteractionMutant(d) ==
    [interaction |-> d, length |-> Len(d)]
Interaction(d) ==
    [interaction |-> d,
     length |-> IF Len(d) = 0 THEN NoLength ELSE d[1].values.shape[1]]

\* ------------------------------------------------- AbstractDataLoader
FieldType(f2t, k) == IF k \in DOMAIN f2t THEN f2t[k] ELSE "unregistered"

ConvertColumn(c, ftype) ==
    IF ftype = "token" THEN Column(c.name, LongTensor(c.values))
    ELSE Column(c.name, FloatTensor(c.values))

\* _dataframe_to_interaction: the fields are visited in order; the first one
\* that is not token/float ends the call (a sequence field rebinds `data` to a
\* list and then indexes it by the field name).
DataframeToInteraction(data, f2t) ==
    LET bad == {i \in 1..Len(data) : FieldType(f2t, data[i].name) \notin {"token", "float"}}
        first == CHOOSE i \in bad : \A j \in bad : i <= j
        ftype == FieldType(f2t, data[first].name)
    IN  IF bad = {}
        THEN [err |-> "none",
              inter |-> Interaction([i \in 1..Len(data) |->
                            ConvertColumn(data[i], f2t[data[i].name])])]
        ELSE [err |-> IF ftype = "unregistered" THEN "KeyError"
                      ELSE IF ftype \in {"token_seq", "float_seq"} THEN "TypeError"
                      ELSE "ValueError",
              inter |-> NoBatch]

\* __next__, line 29: the pass has ended.
EndOfPassMutant(p, pr_end) == p > pr_end
EndOfPass(p, pr_end) == p >= pr_end

\* set_batch_size, line 67: refused while iterating.
IteratingMutant(p, cur, n) == p # 0 /\ n # cur
Iterating(p, cur, n) == p # 0

\* ------------------------------------ GeneralInteractionBasedDataLoader
\* _batch_size_adaptation, lines 138-141 (pointwise).
BatchNumMutant(b, t) == (b \div t) + 1
BatchNum(b, t) == b \div t

NewBatchSizeMutant(batch_num, t) == batch_num * t
NewBatchSize(batch_num, t) == (batch_num + 1) * t

InterStepMutant(batch_num, new_batch_size, rt) == batch_num
InterStep(batch_num, new_batch_size, rt) ==
    IF rt THEN batch_num + 1 ELSE new_batch_size

\* _batch_size_adaptation: the (times, step, batch_size) it leaves.  The
\* pairwise loader keeps the batch size and sets no times.
InterBatchSizeAdaptation(fmt, b, by, rt) ==
    IF fmt = "pairwise"
    THEN [times |-> 0, step |-> b, batch_size |-> b]
    ELSE LET t == 1 + by
             batch_num == BatchNum(b, t)
             new_batch_size == NewBatchSize(batch_num, t)
         IN  [times |-> t,
              step |-> InterStep(batch_num, new_batch_size, rt),
              batch_size |-> new_batch_size]

\* _neg_sample_by_point_wise_sampling, lines 192-193: the label column.
PointWiseLabelsMutant(n, t) == FillSlice(Zeros(n * t), 0, n + 1, 1)
PointWiseLabels(n, t) == FillSlice(Zeros(n * t), 0, n, 1)

\* new_df[label_field] = labels, line 194.
AttachLabelsMutant(df, labels) == df
AttachLabels(df, labels) == Put(df, label_field, labels)

\* _neg_sample_by_point_wise_sampling
NegSampleByPointWise(neg_iids, feat, t, rt) ==
    LET pos_inter_num == Rows(feat)
        new_df == ConcatTimes(feat, t)
        iids == AssignSlice(Get(new_df, iid_field), pos_inter_num,
                            pos_inter_num * t, neg_iids)
        with_negs == Put(new_df, iid_field, iids)
        labelled == AttachLabels(with_negs, PointWiseLabels(pos_inter_num, t))
    IN  IF rt THEN DatasetJoin(labelled) ELSE labelled

\* _neg_sample_by_pair_wise_sampling (dataset.item_feat is None)
NegSampleByPairWiseMutant(neg_iids, feat) == Put(feat, iid_field, neg_iids)
NegSampleByPairWise(neg_iids, feat) == Append(feat, Column(neg_item_id, neg_iids))

\* GeneralInteractionBasedDataLoader._neg_sampling: the call it makes on the
\* sampler and the table it returns.
InterNegSampling(feat, seed) ==
    LET uids == Get(feat, uid_field)
        neg_iids == sample_by_user_ids(uid2items, uids, neg_sample_by, seed)
    IN  [called |-> TRUE, input |-> feat, neg_iids |-> neg_iids,
         output |-> IF dl_format = "pointwise"
                    THEN NegSampleByPointWise(neg_iids, feat, 1 + neg_sample_by,
                                              real_time_neg_sampling)
                    ELSE NegSampleByPairWise(neg_iids, feat)]

Register(f2t, k, ftype) == (k :> ftype) @@ f2t

ConstructFailed(f2t) ==
    /\ pc' = "failed"
    /\ op' = "init"
    /\ result' = "ValueError"
    /\ batch' = NoBatch
    /\ shuffle_calls' = 0
    /\ sampling' = NoSampling
    /\ field2type' = f2t
    /\ UNCHANGED <<kind, dl_format, shuffle, neg_sample_args, arg_batch_size, batch_size,
                   step, times, pr, full, next, inter_feat, uid2items, passes, ivars>>

\* NegSampleBasedDataLoader.__init__, lines 77-80.
BaseInitFails ==
    \/ dl_format \notin {"pointwise", "pairwise"}
    \/ neg_sample_args.strategy \notin {"by", "to"}

\* GeneralInteractionBasedDataLoader.__init__, lines 107-110.
InterInitFailsMutant == neg_sample_args.strategy # "by"
InterInitFails ==
    \/ neg_sample_args.strategy # "by"
    \/ dl_format = "pairwise" /\ neg_sample_args.by # 1

\* GeneralInteractionBasedDataLoader.__init__: the label field is registered
\* before the base class checks its arguments, the negative item field last.
ConstructInter ==
    /\ pc = "new"
    /\ kind = "inter"
    /\ LET f2t1 == IF dl_format = "pointwise"
                   THEN Register(field2type, label_field, "float")
                   ELSE field2type
       IN  IF InterInitFails THEN ConstructFailed(field2type)
           ELSE IF BaseInitFails THEN ConstructFailed(f2t1)
           ELSE \E seed \in Seeds :
                LET a == InterBatchSizeAdaptation(dl_format, arg_batch_size, neg_sample_by,
                                                  real_time_neg_sampling)
                    pre == IF real_time_neg_sampling THEN NoSampling
                           ELSE InterNegSampling(inter_feat, seed)
                IN  /\ pc' = "ready"
                    /\ pr' = 0
                    /\ times' = a.times
                    /\ step' = a.step
                    /\ batch_size' = a.batch_size
                    /\ sampling' = pre
                    /\ inter_feat' = IF real_time_neg_sampling THEN inter_feat
                                     ELSE pre.output
                    /\ field2type' = IF dl_format = "pairwise"
                                     THEN Register(f2t1, neg_item_id, f2t1[iid_field])
                                     ELSE f2t1
                    /\ op' = "init"
                    /\ result' = "ok"
                    /\ batch' = NoBatch
                    /\ shuffle_calls' = 0
                    /\ UNCHANGED <<kind, dl_format, shuffle, neg_sample_args,
                                   arg_batch_size, full, next, uid2items, passes,
                                   ivars>>

\* ----------------------------------------------- GeneralGroupedDataLoader
\* _batch_size_adaptation, lines 219-220: "full" becomes the item count.
GroupedToMutant(to) == IF to = -1 THEN item_num - 1 ELSE to
GroupedTo(to) == IF to = -1 THEN item_num ELSE to

\* _batch_size_adaptation, line 223.
GroupedStep(batch_num) == batch_num + 1

GroupedBatchSizeAdaptation(b, to0) ==
    LET to == GroupedTo(to0)
        batch_num == b \div to
    IN  [to |-> to, step |-> GroupedStep(batch_num), batch_size |-> (batch_num + 1) * to]

\* _neg_sampling, lines 270 and 275: the positives a group keeps.
KeptPositivesMutant(items, to, fl) == IF fl THEN items ELSE PySlice(items, 0, to)
KeptPositives(items, to, fl) == IF fl THEN items ELSE PySlice(items, 0, to - 1)

\* _neg_sampling, lines 272 and 277: the negatives the sampler is asked for.
GroupNegatives(known, uid, to, pos_num, fl, seed) ==
    IF fl THEN sample_full_by_user_id(known, uid)
    ELSE sample_by_user_id(known, uid, to - pos_num, seed)

\* _neg_sampling, line 285: the positives of a group are labelled 1.
GroupLabelsMutant(buf, num, neg_start, neg_end) == FillSlice(buf, num, neg_end, 1)
GroupLabels(buf, num, neg_start, neg_end) == FillSlice(buf, num, neg_start, 1)

\* _neg_sampling, lines 267-294: the loop over the groups, from group i
\* (0-based) on.  acc holds the three buffers, new_inter_num, the negatives
\* drawn, self.next and last_pr.
RECURSIVE GroupLoop(_, _, _, _, _, _, _, _, _)
GroupLoop(groups, i, acc, known, to, fl, rt, stp, seed) ==
    IF i >= Rows(groups) THEN acc
    ELSE
    LET uid == Get(groups, uid_field)[i + 1]
        pos_item_id == KeptPositives(Get(groups, iid_field)[i + 1], to, fl)
        pos_num == Len(pos_item_id)
        neg_item == GroupNegatives(known, uid, to, pos_num, fl, seed + i)
        neg_num == Len(neg_item)
        neg_start == acc.num + pos_num
        neg_end == acc.num + pos_num + neg_num
        num1 == acc.num + pos_num + neg_num
        mark == ~rt /\ i % stp = 0
    IN  GroupLoop(groups, i + 1,
            [uid |-> FillSlice(acc.uid, acc.num, neg_end, uid),
             iid |-> AssignSlice(AssignSlice(acc.iid, acc.num, neg_start, pos_item_id),
                                 neg_start, neg_end, neg_item),
             label |-> GroupLabels(acc.label, acc.num, neg_start, neg_end),
             num |-> num1,
             negs |-> Append(acc.negs, neg_item),
             next |-> IF ~mark THEN acc.next
                      ELSE IF i = 0 THEN <<>>
                      ELSE (acc.last_pr :> num1) @@ acc.next,
             last_pr |-> IF ~mark THEN acc.last_pr
                         ELSE IF i = 0 THEN 0 ELSE num1],
            known, to, fl, rt, stp, seed)

\* _neg_sampling, line 300: the last breakpoint leads to the end of the table.
CloseNextMutant(nxt, last_pr, n) == nxt
CloseNext(nxt, last_pr, n) == (last_pr :> n) @@ nxt

\* GeneralGroupedDataLoader._neg_sampling: the table it returns and the
\* self.next it leaves.
\* _neg_sampling, lines 296-298: the buffers cut to the rows written.
GroupedFrame(acc) ==
    << Column(uid_field, PySlice(acc.uid, 0, acc.num)),
       Column(iid_field, PySlice(acc.iid, 0, acc.num)),
       Column(label_field, PySlice(acc.label, 0, acc.num)) >>

\* _neg_sampling, lines 299-303: what the call returns and leaves in self.next.
GroupedReturn(groups, acc, df, rt) ==
    [called |-> TRUE, input |-> groups, neg_iids |-> acc.negs,
     output |-> IF rt THEN DatasetJoin(df) ELSE df,
     next |-> IF rt THEN acc.next
              ELSE CloseNext(acc.next, acc.last_pr, Rows(df))]

GroupedLoopEnd(groups, acc, rt) == GroupedReturn(groups, acc, GroupedFrame(acc), rt)

GroupedNegSampling(groups, to, fl, stp, nxt, seed) ==
    GroupedLoopEnd(groups,
        GroupLoop(groups, 0,
            [uid |-> Zeros(Rows(groups) * to), iid |-> Zeros(Rows(groups) * to),
             label |-> Zeros(Rows(groups) * to),
             num |-> 0, negs |-> <<>>, next |-> nxt, last_pr |-> 0],
            uid2items, to, fl, real_time_neg_sampling, stp, seed),
        real_time_neg_sampling)

SamplingOf(s) ==
    [called |-> s.called, input |-> s.input, neg_iids |-> s.neg_iids, output |-> s.output]

\* GeneralGroupedDataLoader.__init__, lines 202-205.
GroupedInitFails ==
    \/ neg_sample_args.strategy # "to"
    \/ dl_format = "pairwise"

\* GeneralGroupedDataLoader.__init__: full is read before the base class
\* adapts the batch size (and rewrites neg_sample_args['to']); the label
\* field is registered last.
GroupedConstructor ==
       IF GroupedInitFails \/ BaseInitFails THEN ConstructFailed(field2type)
       ELSE \E seed \in Seeds :
            \E a \in {GroupedBatchSizeAdaptation(arg_batch_size, neg_sample_args.to)} :
            \E fl \in {neg_sample_args.to = -1} :
            \E pre \in {GroupedNegSampling(uid2items, a.to, fl, a.step, <<>>, seed)} :
                /\ pc' = "ready"
                /\ pr' = 0
                /\ full' = fl
                /\ neg_sample_args' = [neg_sample_args EXCEPT !.to = a.to]
                /\ step' = a.step
                /\ batch_size' = a.batch_size
                /\ IF real_time_neg_sampling
                   THEN /\ sampling' = NoSampling
                        /\ next' = <<>>
                        /\ UNCHANGED inter_feat
                   ELSE /\ sampling' = SamplingOf(pre)
                        /\ inter_feat' = pre.output
                        /\ next' = pre.next
                /\ field2type' = Register(field2type, label_field, "float")
                /\ op' = "init"
                /\ result' = "ok"
                /\ batch' = NoBatch
                /\ shuffle_calls' = 0
                /\ UNCHANGED <<kind, dl_format, shuffle, arg_batch_size, times,
                               uid2items, passes, ivars>>

ConstructGrouped ==
    /\ pc = "new"
    /\ kind = "grouped"
    /\ GroupedConstructor

\* Another GeneralGroupedDataLoader is constructed right after the first,
\* with the same arguments: the same dataset and the same neg_sample_args
\* mapping, which the first constructor has written to (line 220).
ConstructGroupedAgain ==
    /\ pc = "ready"
    /\ kind = "grouped"
    /\ op = "init"
    /\ GroupedConstructor

\* ------------------------------------------------------------- iteration
\* pr_end of the loader constructed.
pr_end ==
    IF kind = "grouped" /\ real_time_neg_sampling THEN Rows(uid2items) ELSE DatasetLen

\* _shuffle, lines 148 and 234: the grouped loader in real-time mode shuffles
\* its group table, every other loader its dataset.
ShufflesGroupsMutant(k, rt) == k = "grouped"
ShufflesGroups(k, rt) == k = "grouped" /\ rt

\* __next__, line 30: self.pr = 0
RewindMutant(p) == p
Rewind(p) == 0

\* __next__ with pr >= pr_end: the cursor is reset, the table is shuffled if
\* asked for, and StopIteration is raised.
NextEndOfPass ==
    /\ pc = "ready"
    /\ passes < MaxPasses
    /\ EndOfPass(pr, pr_end)
    /\ pr' = Rewind(pr)
    /\ IF shuffle
       THEN /\ shuffle_calls' = 1
            /\ IF ShufflesGroups(kind, real_time_neg_sampling)
               THEN /\ \E p \in ShuffleOrders(Rows(uid2items)) :
                            uid2items' = Permute(uid2items, p)
                    /\ UNCHANGED inter_feat
               ELSE /\ \E p \in ShuffleOrders(Rows(inter_feat)) :
                            inter_feat' = Permute(inter_feat, p)
                    /\ UNCHANGED uid2items
       ELSE /\ shuffle_calls' = 0
            /\ UNCHANGED <<inter_feat, uid2items>>
    /\ op' = "next"
    /\ result' = "StopIteration"
    /\ batch' = NoBatch
    /\ sampling' = NoSampling
    /\ passes' = passes + 1
    /\ UNCHANGED <<pc, kind, dl_format, shuffle, neg_sample_args, arg_batch_size,
                   batch_size, step, times, full, next, field2type, ivars>>

\* What __next__ leaves once _next_dataframe has returned cur_data.
Yield(cur_data) ==
    LET conv == DataframeToInteraction(cur_data, field2type)
    IN  /\ op' = "next"
        /\ result' = IF conv.err = "none" THEN "batch" ELSE conv.err
        /\ batch' = conv.inter
        /\ shuffle_calls' = 0
        /\ UNCHANGED <<pc, kind, dl_format, shuffle, neg_sample_args, arg_batch_size,
                       batch_size, step, times, full, next, inter_feat, uid2items,
                       field2type, passes, ivars>>

\* _next_dataframe, lines 153 and 246: the cursor moves on by step.
AdvanceMutant(p, stp) == p
Advance(p, stp) == p + stp

\* _next_dataframe, line 152: cur_data = self.dataset[self.pr: self.pr + self.step]
CurDataMutant(p, stp) == DatasetSlice(p, p + stp + 1)
CurData(p, stp) == DatasetSlice(p, p + stp)

\* __next__ with pr < pr_end, GeneralInteractionBasedDataLoader._next_dataframe.
NextBatchInter ==
    /\ pc = "ready"
    /\ kind = "inter"
    /\ ~EndOfPass(pr, pr_end)
    /\ pr' = Advance(pr, step)
    /\ \E seed \in Seeds :
        \E cur_data \in {CurData(pr, step)} :
            IF real_time_neg_sampling
            THEN \E s \in {InterNegSampling(cur_data, seed)} :
                     sampling' = s /\ Yield(s.output)
            ELSE sampling' = NoSampling /\ Yield(cur_data)

\* __next__ with pr < pr_end, GeneralGroupedDataLoader._next_dataframe.
NextBatchGrouped ==
    /\ pc = "ready"
    /\ kind = "grouped"
    /\ ~EndOfPass(pr, pr_end)
    /\ IF real_time_neg_sampling
       THEN \E seed \in Seeds :
            \E s \in {GroupedNegSampling(SliceTable(uid2items, pr, pr + step),
                                         neg_sample_args.to, full, step, next, seed)} :
                /\ pr' = Advance(pr, step)
                /\ sampling' = SamplingOf(s)
                /\ Yield(s.output)
       ELSE IF pr \in DOMAIN next
            THEN /\ pr' = next[pr]
                 /\ sampling' = NoSampling
                 /\ Yield(DatasetSlice(pr, next[pr]))
            ELSE /\ op' = "next"
                 /\ result' = "KeyError"
                 /\ batch' = NoBatch
                 /\ shuffle_calls' = 0
                 /\ sampling' = NoSampling
                 /\ UNCHANGED <<pc, kind, dl_format, shuffle, neg_sample_args,
                                arg_batch_size, batch_size, step, times, pr, full, next,
                                inter_feat, uid2items, field2type, passes, ivars>>

\* The sizes set_batch_size is called with.
SetBatchSizes == {batch_size, arg_batch_size}

\* set_batch_size, lines 69-70: the size the loader keeps.
AdoptBatchSizeMutant(cur, n) == n + 1
AdoptBatchSize(cur, n) == IF cur # n THEN n ELSE cur

\* set_batch_size(n)
SetBatchSizeTo(n) ==
    /\ pc = "ready"
    /\ op' = "set_batch_size"
    /\ IF Iterating(pr, batch_size, n)
       THEN /\ result' = "PermissionError"
            /\ UNCHANGED batch_size
       ELSE /\ result' = "ok"
            /\ batch_size' = AdoptBatchSize(batch_size, n)
    /\ batch' = NoBatch
    /\ shuffle_calls' = 0
    /\ sampling' = NoSampling
    /\ UNCHANGED <<pc, kind, dl_format, shuffle, neg_sample_args, arg_batch_size,
                   step, times, pr, full, next, inter_feat, uid2items, field2type, passes,
                   ivars>>

SetBatchSize == \E n \in SetBatchSizes : SetBatchSizeTo(n)

\* ------------------------------------------------- Interaction's methods
\* Every method returns [err, inter]: the exception raised ("none": none)
\* and the Interaction returned.
Returned(inter) == [err |-> "none", inter |-> inter]
Raised(err) == [err |-> err, inter |-> NoBatch]

\* Interaction(ret) at the end of a method: `.shape[0]` of a 0-dim first
\* field is an IndexError.
InitRaises(d) == Len(d) > 0 /\ Len(d[1].values.shape) = 0

NewInteraction(d) == IF InitRaises(d) THEN Raised("IndexError") ELSE Returned(Interaction(d))

\* tensor[index] can be evaluated: an integer in -n..n-1, any range, a
\* boolean mask of the tensor's length, a list of integers in 0..n-1.
IndexValid(t, index) ==
    LET n == Len(t.data)
    IN  CASE index.kind = "int" -> -n <= index.i /\ index.i < n
          [] index.kind = "range" -> TRUE
          [] index.kind = "mask" -> Len(index.m) = n
          [] index.kind = "list" -> \A j \in 1..Len(index.ids) : index.ids[j] < n

\* tensor[index] on the first axis: an integer drops the axis.
TensorGetItem(t, index) ==
    LET n == Len(t.data)
        rest == Tail(t.shape)
        pick(d) == [t EXCEPT !.shape = <<Len(d)>> \o rest, !.data = d]
    IN  CASE index.kind = "int" ->
                [t EXCEPT !.shape = rest,
                          !.data = t.data[(IF index.i < 0 THEN n + index.i ELSE index.i) + 1]]
          [] index.kind = "range" -> pick(PySlice(t.data, index.a, index.b))
          [] index.kind = "mask" ->
                LET at == SortedSeq({i \in 1..n : index.m[i]})
                IN  pick([j \in 1..Len(at) |-> t.data[at[j]]])
          [] index.kind = "list" ->
                pick([j \in 1..Len(index.ids) |-> t.data[index.ids[j] + 1]])

\* tensor.to(device), tensor.cpu()
TensorTo(t, device) == [t EXCEPT !.device = device]

\* tensor.repeat(sizes) of a 1-D tensor: tiled sizes[-1] times along its
\* axis, and stacked sizes[0] times when two sizes are given.
TensorRepeat(t, sizes) ==
    LET row == Repeat(t.data, sizes[Len(sizes)])
    IN  IF Len(sizes) = 1
        THEN [t EXCEPT !.shape = <<Len(row)>>, !.data = row]
        ELSE [t EXCEPT !.shape = <<sizes[1], Len(row)>>,
                       !.data = [r \in 1..sizes[1] |-> row]]

\* tensor.repeat_interleave(repeats) of a 1-D tensor, repeats an integer.
TensorRepeatInterleave(t, repeats) ==
    LET d == [i \in 1..(Len(t.data) * repeats) |-> t.data[((i - 1) \div repeats) + 1]]
    IN  [t EXCEPT !.shape = <<Len(d)>>, !.data = d]

\* Interaction.__getitem__, lines 20-24 (index not a string).
GetItem(self, index) ==
    IF \E i \in 1..Len(self.interaction) : ~IndexValid(self.interaction[i].values, index)
    THEN Raised("IndexError")
    ELSE NewInteraction([i \in 1..Len(self.interaction) |->
            Column(self.interaction[i].name,
                   TensorGetItem(self.interaction[i].values, index))])

\* Interaction.to, lines 29-41: set(None) raises, and the bare except
\* transfers every field.
InteractionToMutant(self, device, selected_field) ==
    NewInteraction([i \in 1..Len(self.interaction) |->
        Column(self.interaction[i].name, TensorTo(self.interaction[i].values, device))])
InteractionTo(self, device, selected_field) ==
    NewInteraction([i \in 1..Len(self.interaction) |->
        LET c == self.interaction[i]
        IN  IF ~selected_field.given \/ c.name \in selected_field.fields
            THEN Column(c.name, TensorTo(c.values, device))
            ELSE c])

\* Interaction.cpu, lines 43-47.
InteractionCpu(self) ==
    NewInteraction([i \in 1..Len(self.interaction) |->
        Column(self.interaction[i].name, TensorTo(self.interaction[i].values, "cpu"))])

\* Interaction.repeat, lines 55-59.
InteractionRepeat(self, sizes) ==
    NewInteraction([i \in 1..Len(self.interaction) |->
        Column(self.interaction[i].name, TensorRepeat(self.interaction[i].values, sizes))])

\* Interaction.to_device_repeat_interleave, lines 61-65.
ToDeviceRepeatInterleave(self, device, repeats) ==
    NewInteraction([i \in 1..Len(self.interaction) |->
        Column(self.interaction[i].name,
               TensorRepeatInterleave(TensorTo(self.interaction[i].values, device),
                                      repeats))])

\* Interaction.update, lines 67-69: the fields of other_inter from the i-th on
\* are written into the mapping d.
RECURSIVE UpdateFields(_, _, _)
UpdateFields(d, nd, i) ==
    IF i > Len(nd) THEN d
    ELSE UpdateFields(Put(d, nd[i].name, nd[i].values), nd, i + 1)

\* self after self.update(new): self.length is not touched.
UpdateMutant(self, new) == Interaction(UpdateFields(self.interaction, new.interaction, 1))
Update(self, new) ==
    [interaction |-> UpdateFields(self.interaction, new.interaction, 1),
     length |-> self.length]

\* ------------------------------------------- the Interaction machine
\* The registries of the dataset the slice comes from.
frame_field2type ==
    ("user_id" :> "token") @@ ("rating" :> "float") @@ ("item_list" :> "token_seq")
    @@ ("rating_list" :> "float_seq") @@ ("timestamp" :> "date")

field2seqlen == [k \in DOMAIN frame_field2type |-> MaxSeqLen]

\* The values of field k in a slice of n rows; row i of a sequence field
\* holds i values.
FrameValues(k, n, base) ==
    IF frame_field2type[k] \in {"token_seq", "float_seq"}
    THEN [i \in 1..n |-> [j \in 1..i |-> base + i + j]]
    ELSE [i \in 1..n |-> base + i]

FrameBase(k) ==
    CASE k = "user_id" -> 0 [] k = "rating" -> 10 [] k = "item_list" -> 20
      [] k = "rating_list" -> 30 [] OTHER -> 40

\* The slices converted: one or two distinct fields, 1..MaxRows rows.
Frames ==
    { <<Column(k, FrameValues(k, n, FrameBase(k)))>> :
          k \in DOMAIN frame_field2type, n \in 1..MaxRows }
    \cup
    { <<Column(x[1], FrameValues(x[1], n, FrameBase(x[1]))),
        Column(x[2], FrameValues(x[2], n, FrameBase(x[2])))>> :
          x \in {y \in (DOMAIN frame_field2type) \X (DOMAIN frame_field2type) : y[1] # y[2]},
          n \in 1..MaxRows }

\* The Interactions passed to update(): one field, already in self or new
\* to it, of one row or of MaxRows rows.
Others ==
    { Interaction(<<Column(k, FloatTensor([i \in 1..n |-> 50 + i]))>>) :
          k \in {"rating", label_field}, n \in {1, MaxRows} }

Devices == {"cpu", "cuda"}

\* The indexes __getitem__ is called with on an Interaction of n rows.
Indexes(n) ==
    { [kind |-> "int", i |-> i] : i \in (-1)..(n - 1) }
    \cup { [kind |-> "range", a |-> a, b |-> b] : a \in 0..1, b \in {-1, 1, n} }
    \cup { [kind |-> "mask", m |-> m] : m \in [1..n -> BOOLEAN] }
    \cup { [kind |-> "list", ids |-> ids] : ids \in {<<>>, <<0>>, <<n - 1, 0>>} }

\* The selected_field arguments of to(): None (not given), or a collection
\* of names, of the receiver's fields and of a field it does not have.
SelectedFields(self) ==
    {[given |-> FALSE, fields |-> {}]}
    \cup { [given |-> TRUE, fields |-> fs] :
               fs \in SUBSET (Names(self.interaction) \cup {neg_item_id}) }

RepeatSizes == [1..1 -> 0..MaxRepeat] \cup [1..2 -> 1..MaxRepeat]

\* The loader machine is not running.
LoaderOff ==
    /\ pc = "off"
    /\ kind = "inter"
    /\ dl_format = "pointwise"
    /\ shuffle = FALSE
    /\ neg_sample_args = [strategy |-> "by", real_time |-> TRUE, by |-> 1, to |-> -1]
    /\ arg_batch_size = 1
    /\ batch_size = 0
    /\ step = 0
    /\ times = 0
    /\ pr = 0
    /\ full = FALSE
    /\ next = <<>>
    /\ uid2items = <<>>
    /\ inter_feat = <<>>
    /\ field2type = frame_field2type
    /\ op = "none"
    /\ result = "none"
    /\ batch = NoBatch
    /\ shuffle_calls = 0
    /\ sampling = NoSampling
    /\ passes = 0

\* The Interaction machine is not running.
InteractionOff ==
    /\ ipc = "off"
    /\ frame = <<>>
    /\ self_inter = NoBatch
    /\ other_inter = NoBatch
    /\ iop = [name |-> "none"]
    /\ ret = Raised("none")

loader_vars ==
    <<pc, kind, dl_format, shuffle, neg_sample_args, arg_batch_size, batch_size,
      step, times, pr, full, next, inter_feat, uid2items, field2type,
      op, result, batch, shuffle_calls, sampling, passes>>

InteractionInit ==
    /\ LoaderOff
    /\ ipc = "frame"
    /\ frame \in Frames
    /\ self_inter = NoBatch
    /\ other_inter \in Others
    /\ iop = [name |-> "none"]
    /\ ret = Raised("none")

\* __next__, line 35: the slice is converted; the caller holds the result.
ToInteraction ==
    /\ ipc = "frame"
    /\ LET conv == DataframeToInteraction(frame, field2type)
       IN  /\ ret' = conv
           /\ self_inter' = conv.inter
           /\ ipc' = IF conv.err = "none" THEN "held" ELSE "failed"
    /\ iop' = [name |-> "convert"]
    /\ UNCHANGED <<frame, other_inter, loader_vars>>

\* A method that returns a new Interaction and assigns nothing.
Call(name, arg, r) ==
    /\ iop' = [name |-> name, arg |-> arg]
    /\ ret' = r
    /\ UNCHANGED <<ipc, frame, self_inter, other_inter, loader_vars>>

CallGetItem ==
    /\ ipc = "held"
    /\ \E index \in Indexes(self_inter.length) :
        Call("getitem", index, GetItem(self_inter, index))

CallTo ==
    /\ ipc = "held"
    /\ \E device \in Devices, sel \in SelectedFields(self_inter) :
        Call("to", [device |-> device, selected_field |-> sel],
             InteractionTo(self_inter, device, sel))

CallCpu ==
    /\ ipc = "held"
    /\ Call("cpu", [none |-> TRUE], InteractionCpu(self_inter))

CallRepeat ==
    /\ ipc = "held"
    /\ \E sizes \in RepeatSizes :
        Call("repeat", [sizes |-> sizes], InteractionRepeat(self_inter, sizes))

CallToDeviceRepeatInterleave ==
    /\ ipc = "held"
    /\ \E device \in Devices, repeats \in 0..MaxRepeat :
        Call("to_device_repeat_interleave", [device |-> device, repeats |-> repeats],
             ToDeviceRepeatInterleave(self_inter, device, repeats))

\* self_inter.update(other_inter): returns None.
CallUpdate ==
    /\ ipc = "held"
    /\ self_inter' = Update(self_inter, other_inter)
    /\ iop' = [name |-> "update", arg |-> [none |-> TRUE]]
    /\ ret' = Raised("none")
    /\ UNCHANGED <<ipc, frame, other_inter, loader_vars>>

InteractionNext ==
    \/ ToInteraction
    \/ CallGetItem
    \/ CallTo
    \/ CallCpu
    \/ CallRepeat
    \/ CallToDeviceRepeatInterleave
    \/ CallUpdate

InteractionSpec == InteractionInit /\ [][InteractionNext]_vars

\* ------------------------------------------------------------ the inputs
\* User u's positive items, c of them, in stored (here descending) order.
PosItems(u, c) == [j \in 1..c |-> ((u + c - j) % item_num) + 1]

\* The datasets: in dataset c user u has Count(c, u) positive interactions.
Count(c, u) == ((u + c) % MaxPos) + 1

Counts == {[u \in 1..NumUsers |-> Count(c, u)] : c \in 1..MaxPos}

\* The per-user grouping table of a dataset with cnt[u] positives for user u.
GroupTable(cnt) ==
    << Column(uid_field, [u \in 1..Len(cnt) |-> u]),
       Column(iid_field, [u \in 1..Len(cnt) |-> PosItems(u, cnt[u])]) >>

\* The interaction table of that dataset: one row per positive interaction.
InterTable(cnt) ==
    << Column(uid_field, Flatten([u \in 1..Len(cnt) |-> [j \in 1..cnt[u] |-> u]])),
       Column(iid_field, Flatten([u \in 1..Len(cnt) |-> PosItems(u, cnt[u])])) >>

NegSampleArgs ==
    [strategy : {"by"}, real_time : BOOLEAN, by : 1..MaxBy, to : {-1}]
    \cup [strategy : {"to"}, real_time : BOOLEAN, by : {1}, to : {-1} \cup 1..MaxTo]
    \cup [strategy : {"none"}, real_time : {TRUE}, by : {1}, to : {-1}]

BatchSizes == (1..MaxBatch) \cup {ExampleBatch}

Init ==
    /\ pc = "new"
    /\ kind \in {"inter", "grouped"}
    /\ dl_format \in {"pointwise", "pairwise", "listwise"}
    /\ shuffle \in BOOLEAN
    /\ neg_sample_args \in NegSampleArgs
    /\ arg_batch_size \in BatchSizes
    /\ batch_size = 0
    /\ step = 0
    /\ times = 0
    /\ pr = 0
    /\ full = FALSE
    /\ next = <<>>
    /\ \E cnt \in Counts :
        /\ uid2items = GroupTable(cnt)
        /\ inter_feat = InterTable(cnt)
    /\ field2type = (uid_field :> "token") @@ (iid_field :> "token")
    /\ op = "none"
    /\ result = "none"
    /\ batch = NoBatch
    /\ shuffle_calls = 0
    /\ sampling = NoSampling
    /\ passes = 0
    /\ InteractionOff

Next ==
    \/ ConstructInter
    \/ ConstructGrouped
    \/ NextEndOfPass
    \/ NextBatchInter
    \/ NextBatchGrouped
    \/ SetBatchSize

Spec == Init /\ [][Next]_vars

\* __next__, line 29, not taken: the call goes on to _next_dataframe.
BatchDue == pc = "ready" /\ ~EndOfPass(pr, pr_end)

\* A step of __next__ that went on to _next_dataframe.
BatchStep == op' = "next" /\ result' # "StopIteration"

\* The training and evaluation loops call next() again and again (for batch
\* in loader): a next() that can be made is made. Weak fairness of the
\* end-of-pass call, and of the batch calls with their enabling condition
\* (BatchDue) written out.
Fairness ==
    /\ WF_vars(NextEndOfPass)
    /\ ([]<>(~BatchDue) \/ []<><<BatchStep>>_vars)

LiveSpec == Spec /\ Fairness

\* ------------------------------------------------ paging over more groups
\* The grouped loader alone, over PagingUsers users, so that a pass takes
\* several batches; a second loader may be constructed from the settings
\* mapping of the first.
PagingCounts == {[u \in 1..PagingUsers |-> Count(c, u)] : c \in 1..MaxPos}

PagingInit ==
    /\ pc = "new"
    /\ kind = "grouped"
    /\ dl_format = "pointwise"
    /\ shuffle \in BOOLEAN
    /\ neg_sample_args \in [strategy : {"to"}, real_time : BOOLEAN, by : {1},
                            to : {-1} \cup 1..MaxTo]
    /\ arg_batch_size \in BatchSizes
    /\ batch_size = 0
    /\ step = 0
    /\ times = 0
    /\ pr = 0
    /\ full = FALSE
    /\ next = <<>>
    /\ \E cnt \in PagingCounts :
        /\ uid2items = GroupTable(cnt)
        /\ inter_feat = InterTable(cnt)
    /\ field2type = (uid_field :> "token") @@ (iid_field :> "token")
    /\ op = "none"
    /\ result = "none"
    /\ batch = NoBatch
    /\ shuffle_calls = 0
    /\ sampling = NoSampling
    /\ passes = 0
    /\ InteractionOff

PagingNext ==
    \/ ConstructGrouped
    \/ ConstructGroupedAgain
    \/ NextEndOfPass
    \/ NextBatchGrouped
    \/ SetBatchSize

PagingSpec == PagingInit /\ [][PagingNext]_vars

\* ================================================================ claims
Ones(s) == Cardinality({i \in 1..Len(s) : s[i] = 1})
ZerosIn(s) == Cardinality({i \in 1..Len(s) : s[i] = 0})
Range(s) == {s[i] : i \in 1..Len(s)}

\* C1: a next() call made with pr >= pr_end resets pr to 0, calls the shuffle
\* hook once if the shuffle flag is set and not at all otherwise, and raises
\* StopIteration without a batch; a call made with pr < pr_end returns one
\* batch, shuffles nothing and does not raise StopIteration.
C1_NextProtocol ==
    [][ (pc = "ready" /\ op' = "next") =>
          IF pr >= pr_end
          THEN /\ pr' = 0
               /\ shuffle_calls' = (IF shuffle THEN 1 ELSE 0)
               /\ result' = "StopIteration"
               /\ batch' = NoBatch
          ELSE /\ result' = "batch"
               /\ batch' # NoBatch
               /\ shuffle_calls' = 0
               /\ inter_feat' = inter_feat
               /\ uid2items' = uid2items ]_vars

\* C1 witness: a batch of the second pass of a shuffling loader.
C1_Witness == passes = 1 /\ shuffle /\ shuffle_calls = 0 /\ result = "batch"

\* C2: set_batch_size called with pr # 0 raises PermissionError whatever the
\* size asked for and leaves batch_size, step and pr alone; called with pr = 0
\* (also after a pass has ended) it succeeds.
C2_SetBatchSizeGuard ==
    [][ (pc = "ready" /\ op' = "set_batch_size") =>
          IF pr # 0
          THEN /\ result' = "PermissionError"
               /\ batch_size' = batch_size
               /\ step' = step
               /\ pr' = pr
          ELSE result' = "ok" ]_vars

\* C2 witness: the call refused in the middle of the second pass.
C2_Witness == op = "set_batch_size" /\ result = "PermissionError" /\ pr # 0 /\ passes = 1

\* C3: pointwise sampling of n rows with by = k returns n*(1+k) rows: the n
\* input rows unchanged with label 1 first, then n*k rows with label 0.
C3_PointwiseSampling ==
    (kind = "inter" /\ dl_format = "pointwise" /\ sampling.called) =>
        LET n == Rows(sampling.input)
            k == neg_sample_by
            out == sampling.output
            labels == Get(out, label_field)
        IN  /\ \A c \in 1..Len(out) : Len(out[c].values) = n * (1 + k)
            /\ \A c \in 1..Len(sampling.input) :
                   SubSeq(Get(out, sampling.input[c].name), 1, n) = sampling.input[c].values
            /\ \A i \in 1..(n * (1 + k)) : labels[i] = (IF i <= n THEN 1 ELSE 0)
            /\ Ones(labels) = n
            /\ ZerosIn(labels) = n * k

\* C3 witness: 3 rows sampled by 2, labels 1,1,1,0,0,0,0,0,0.
C3_Witness ==
    /\ kind = "inter" /\ dl_format = "pointwise" /\ sampling.called
    /\ Rows(sampling.input) = 3 /\ neg_sample_by = 2
    /\ Get(sampling.output, label_field) = <<1, 1, 1, 0, 0, 0, 0, 0, 0>>

\* The rows of group g (1-based) in a table of groups of the given width.
Block(col, g, width) == SubSeq(col, (g - 1) * width + 1, g * width)

\* C4: grouped sampling, not full: every group yields `to` consecutive rows of
\* its user, first its first min(pos_count, to-1) positives in stored order
\* with label 1, then negatives drawn by the sampler with label 0.
C4_GroupedSamplingTo ==
    (kind = "grouped" /\ sampling.called /\ ~full) =>
        LET groups == sampling.input
            out == sampling.output
            to == neg_sample_args.to
        IN  /\ \A c \in 1..Len(out) : Len(out[c].values) = Rows(groups) * to
            /\ \A g \in 1..Rows(groups) :
                LET uid == Get(groups, uid_field)[g]
                    items == Get(groups, iid_field)[g]
                    m == Min(Len(items), to - 1)
                    iids == Block(Get(out, iid_field), g, to)
                    labels == Block(Get(out, label_field), g, to)
                IN  /\ Block(Get(out, uid_field), g, to) = [i \in 1..to |-> uid]
                    /\ SubSeq(iids, 1, m) = SubSeq(items, 1, m)
                    /\ SubSeq(iids, m + 1, to) = sampling.neg_iids[g]
                    /\ Range(sampling.neg_iids[g]) \cap Range(items) = {}
                    /\ labels = [i \in 1..to |-> IF i <= m THEN 1 ELSE 0]

\* C4 witness: to = 4 and a user with 5 positives: labels 1,1,1,0.
C4_Witness ==
    /\ kind = "grouped" /\ sampling.called /\ ~full /\ neg_sample_args.to = 4
    /\ \E g \in 1..Rows(sampling.input) :
        /\ Len(Get(sampling.input, iid_field)[g]) = 5
        /\ Block(Get(sampling.output, label_field), g, 4) = <<1, 1, 1, 0>>

\* C5: grouped sampling, full: every group yields item_num consecutive rows of
\* its user, all its positives with label 1, then every non-positive item
\* once with label 0.
C5_GroupedSamplingFull ==
    (kind = "grouped" /\ sampling.called /\ full) =>
        LET groups == sampling.input
            out == sampling.output
        IN  /\ \A c \in 1..Len(out) : Len(out[c].values) = Rows(groups) * item_num
            /\ \A g \in 1..Rows(groups) :
                LET uid == Get(groups, uid_field)[g]
                    items == Get(groups, iid_field)[g]
                    m == Len(items)
                    iids == Block(Get(out, iid_field), g, item_num)
                    labels == Block(Get(out, label_field), g, item_num)
                    negs == SubSeq(iids, m + 1, item_num)
                IN  /\ Block(Get(out, uid_field), g, item_num) = [i \in 1..item_num |-> uid]
                    /\ SubSeq(iids, 1, m) = items
                    /\ labels = [i \in 1..item_num |-> IF i <= m THEN 1 ELSE 0]
                    /\ Range(negs) = (1..item_num) \ Range(items)
                    /\ Cardinality(Range(negs)) = Len(negs)

\* C5 witness: a full candidate set sampled for a user with several positives.
C5_Witness ==
    /\ kind = "grouped" /\ sampling.called /\ full
    /\ \E g \in 1..Rows(sampling.input) : Len(Get(sampling.input, iid_field)[g]) >= 2
    /\ Rows(sampling.output) = Rows(sampling.input) * item_num

\* The state construction of a pointwise `by` loader has just left.
PointwiseBuilt ==
    pc = "ready" /\ op = "init" /\ kind = "inter" /\ dl_format = "pointwise"

C8_GroupedAdaptation ==
    (pc = "ready" /\ op = "init" /\ kind = "grouped") =>
        LET to == neg_sample_args.to
        IN  /\ full => to = item_num
            /\ ~full => to \in 1..MaxTo
            /\ step = (arg_batch_size \div to) + 1
            /\ batch_size = step * to
            /\ batch_size % to = 0
            /\ batch_size > arg_batch_size

\* C8 witness: a full grouped loader, `to` now the item count.
C8_Witness ==
    /\ pc = "ready" /\ op = "init" /\ kind = "grouped" /\ full
    /\ neg_sample_args.to = item_num /\ arg_batch_size = 9 /\ step = 2

\* C9 as claimed: after a successful set_batch_size the step fits the batch
\* size again (step * times = batch_size for a real-time pointwise loader,
\* step * to = batch_size for a grouped loader).
C9_StepRecomputed ==
    (pc = "ready" /\ op = "set_batch_size" /\ result = "ok") =>
        /\ (kind = "inter" /\ dl_format = "pointwise" /\ real_time_neg_sampling)
               => step * times = batch_size
        /\ kind = "grouped" => step * neg_sample_args.to = batch_size

C11_Invalid ==
    \/ dl_format \notin {"pointwise", "pairwise"}
    \/ kind = "inter" /\ neg_sample_args.strategy # "by"
    \/ kind = "grouped" /\ neg_sample_args.strategy # "to"
    \/ dl_format = "pairwise" /\ neg_sample_args.by # 1
    \/ kind = "grouped" /\ dl_format = "pairwise"

C11_FailedConstruction ==
    [][ /\ (pc = "new" /\ op' = "init" /\ C11_Invalid) => pc' = "failed"
        /\ (pc = "new" /\ pc' = "failed") =>
              /\ result' = "ValueError"
              /\ ~sampling'.called
              /\ field2type' = field2type
              /\ inter_feat' = inter_feat
              /\ uid2items' = uid2items
              /\ neg_sample_args' = neg_sample_args ]_vars

C11_Witness ==
    /\ pc = "failed"
    /\ result = "ValueError"
    /\ kind = "inter"
    /\ dl_format = "pairwise"
    /\ neg_sample_args.strategy = "by"
    /\ neg_sample_args.by # 1

\* C12: a loader that is not real-time calls the sampler in its construction
\* and in no next() call of any pass; a real-time loader does not call it in
\* its construction and calls it in every next() call that yields a batch.
C12_SamplerCalls ==
    /\ (op = "init" /\ pc = "ready") => (sampling.called <=> ~neg_sample_args.real_time)
    /\ (op = "next" /\ result = "batch") => (sampling.called <=> neg_sample_args.real_time)
    /\ (op = "next" /\ ~neg_sample_args.real_time) => ~sampling.called

C12_Witness ==
    /\ ~neg_sample_args.real_time
    /\ passes = 1
    /\ op = "next"
    /\ result = "batch"
    /\ ~sampling.called

C17_CursorMonotone ==
    [][ /\ (op' = "next" /\ result' = "batch") => pr' > pr
        /\ (pr' < pr) => (op' = "next" /\ result' = "StopIteration" /\ pr' = 0)
        /\ (pr' # pr) => op' = "next" ]_vars

C17_Witness ==
    /\ op = "next"
    /\ result = "batch"
    /\ pr > step
    /\ pr < pr_end

\* C19: set_batch_size(n) at pr = 0 with n the current batch size succeeds
\* and changes nothing: batch_size, step, pr, the dataset's tables and
\* registry are what they were, so any number of such calls is as one.
C19_SameSizeNoOp ==
    [][ (pr = 0 /\ SetBatchSizeTo(batch_size)) =>
            /\ result' = "ok"
            /\ UNCHANGED <<batch_size, step, times, pr, next, inter_feat, uid2items,
                           field2type, neg_sample_args>> ]_vars

C19_Witness ==
    /\ op = "set_batch_size"
    /\ result = "ok"
    /\ pr = 0
    /\ batch_size # arg_batch_size
    /\ step # batch_size

\* The fields of an Interaction all have its length on their first axis.
EqualLength(inter) ==
    \A i \in 1..Len(inter.interaction) :
        LET t == inter.interaction[i].values
        IN  Len(t.shape) > 0 /\ t.shape[1] = inter.length /\ Len(t.data) = inter.length

FieldNames(d) == [i \in 1..Len(d) |-> d[i].name]

\* The index of the last __getitem__ call is in range for every field.
InRangeIndex ==
    \A i \in 1..Len(self_inter.interaction) :
        IndexValid(self_inter.interaction[i].values, iop.arg)

\* C14: indexing an Interaction by an in-range integer, a range, a boolean
\* mask or an integer list succeeds and returns an Interaction with the same
\* fields in the same order, each the original field indexed alike.
C14_Indexing ==
    (iop.name = "getitem" /\ InRangeIndex) =>
        /\ ret.err = "none"
        /\ FieldNames(ret.inter.interaction) = FieldNames(self_inter.interaction)
        /\ \A i \in 1..Len(self_inter.interaction) :
              ret.inter.interaction[i].values.data =
                  TensorGetItem(self_inter.interaction[i].values, iop.arg).data

\* The fields of the slice converted are all of a recognised type, one of
\* them a sequence type.
SequenceFrame ==
    /\ \A i \in 1..Len(frame) :
          field2type[frame[i].name] \in {"token", "float", "token_seq", "float_seq"}
    /\ \E i \in 1..Len(frame) : field2type[frame[i].name] \in {"token_seq", "float_seq"}

\* The rows of a sequence column cut to the field's seqlen and padded with
\* zeros on the right to the longest of them.
Truncated(c) == [i \in 1..Len(c.values) |-> PySlice(c.values[i], 0, field2seqlen[c.name])]

Longest(rows) == CHOOSE w \in 0..MaxSeqLen :
    /\ \A i \in 1..Len(rows) : Len(rows[i]) <= w
    /\ \E i \in 1..Len(rows) : Len(rows[i]) = w

Padded(c) ==
    LET rows == Truncated(c)
    IN  [i \in 1..Len(rows) |-> rows[i] \o Zeros(Longest(rows) - Len(rows[i]))]

\* C15: the conversion of a slice with a token_seq or float_seq field
\* succeeds and returns every field of the slice, a sequence field as a 2-D
\* array of one row per input row, cut to seqlen and zero-padded on the right.
C15_SequenceConversion ==
    (iop.name = "convert" /\ SequenceFrame) =>
        /\ ret.err = "none"
        /\ FieldNames(ret.inter.interaction) = FieldNames(frame)
        /\ \A i \in 1..Len(frame) :
              field2type[frame[i].name] \in {"token_seq", "float_seq"} =>
                  /\ ret.inter.interaction[i].values.data = Padded(frame[i])
                  /\ ret.inter.interaction[i].values.shape =
                         <<Rows(frame), Longest(Truncated(frame[i]))>>

\* C16: a converted Interaction has the row count of its slice as len() and
\* as the length of every field; range indexing, to, cpu, repeat and
\* to_device_repeat_interleave of an Interaction with fields of equal
\* length return an Interaction with fields of equal length.
C16_EqualLength ==
    /\ (iop.name = "convert" /\ ret.err = "none") =>
          ret.inter.length = Rows(frame) /\ EqualLength(ret.inter)
    /\ ( /\ \/ iop.name \in {"to", "cpu", "repeat", "to_device_repeat_interleave"}
            \/ iop.name = "getitem" /\ iop.arg.kind = "range"
         /\ EqualLength(self_inter) ) =>
          ret.err = "none" /\ EqualLength(ret.inter)

C16_Witness ==
    /\ iop.name = "to_device_repeat_interleave"
    /\ iop.arg.repeats = 2
    /\ Len(self_inter.interaction) = 2
    /\ self_inter.length > 1
    /\ EqualLength(self_inter)
    /\ ret.inter.length = 2 * self_inter.length

\* C18: after a.update(b) every field of b has b's value in a, the other
\* fields of a keep their values, b is unchanged, the call succeeds whatever
\* the lengths are, and len(a) is what it was.
C18_Update ==
    [][ iop'.name = "update" =>
            LET a == self_inter.interaction
                a1 == self_inter'.interaction
                b == other_inter.interaction
            IN  /\ ret'.err = "none"
                /\ Names(a1) = Names(a) \cup Names(b)
                /\ \A k \in Names(b) : Get(a1, k) = Get(b, k)
                /\ \A k \in Names(a) \ Names(b) : Get(a1, k) = Get(a, k)
                /\ other_inter' = other_inter
                /\ self_inter'.length = self_inter.length ]_vars

C18_Witness ==
    /\ iop.name = "update"
    /\ Len(self_inter.interaction) = 2
    /\ Has(self_inter.interaction, "rating")
    /\ Get(self_inter.interaction, "rating") = Get(other_inter.interaction, "rating")
    /\ Len(Get(self_inter.interaction, "rating").data) # self_inter.length

\* C20: the conversion of a slice with a field of unrecognised type raises
\* ValueError and returns no Interaction; a slice of token and float fields
\* converts, token fields to integer arrays, float fields to floating ones.
C20_TypeDispatch ==
    iop.name = "convert" =>
        /\ (\E i \in 1..Len(frame) :
                field2type[frame[i].name] \notin {"token", "float", "token_seq", "float_seq"})
              => (ret.err = "ValueError" /\ ret.inter = NoBatch)
        /\ (\A i \in 1..Len(frame) : field2type[frame[i].name] \in {"token", "float"})
              => /\ ret.err = "none"
                 /\ FieldNames(ret.inter.interaction) = FieldNames(frame)
                 /\ \A i \in 1..Len(frame) :
                       LET t == ret.inter.interaction[i].values
                       IN  /\ t.data = frame[i].values
                           /\ t.dtype = IF field2type[frame[i].name] = "token"
                                        THEN "int64" ELSE "float32"

\* C21: to(device, fields) returns an Interaction with the receiver's field
\* names in the receiver's order and leaves the receiver as it was; with a
\* collection of names, the receiver's fields named in it are on the device
\* and every other field is passed through as it is (names the receiver does
\* not have are ignored); with None every field is on the device.
C21_To ==
    [][ iop'.name = "to" =>
            LET a == self_inter.interaction
                r == ret'.inter.interaction
                device == iop'.arg.device
                sel == iop'.arg.selected_field
            IN  /\ ret'.err = "none"
                /\ self_inter' = self_inter
                /\ FieldNames(r) = FieldNames(a)
                /\ \A i \in 1..Len(a) :
                      IF ~sel.given \/ a[i].name \in sel.fields
                      THEN /\ r[i].values.device = device
                           /\ r[i].values.data = a[i].values.data
                           /\ r[i].values.dtype = a[i].values.dtype
                      ELSE r[i].values = a[i].values ]_vars

C21_Witness ==
    /\ iop.name = "to"
    /\ iop.arg.device = "cuda"
    /\ iop.arg.selected_field.given
    /\ iop.arg.selected_field.fields = {"rating", neg_item_id}
    /\ FieldNames(self_inter.interaction) = <<"user_id", "rating">>
    /\ ret.inter.interaction[1].values.device = "cpu"
    /\ ret.inter.interaction[2].values.device = "cuda"

\* C22: a batch of the first pass of a pre-materialized grouped loader holds
\* the rows of at most `step` user groups and, when not in full mode, at most
\* step * to rows.
C22_BreakpointEveryStep ==
    (kind = "grouped" /\ pc = "ready" /\ ~neg_sample_args.real_time
        /\ passes = 0 /\ op = "next" /\ result = "batch") =>
        /\ Cardinality(Range(Get(batch.interaction, uid_field).data)) <= step
        /\ ~full => batch.length <= step * neg_sample_args.to

\* The cursors met by following the map m from cursor c, for as long as the
\* cursor is a key that leads forward (at most n steps).
RECURSIVE Cursors(_, _, _)
Cursors(m, c, n) ==
    IF n = 0 \/ c \notin DOMAIN m THEN <<c>>
    ELSE IF m[c] <= c THEN <<c>>
    ELSE <<c>> \o Cursors(m, m[c], n - 1)

\* Row c (0-based) starts a user group of the expanded table, or ends it.
GroupBoundary(c) ==
    LET uids == Get(inter_feat, uid_field)
    IN  c = 0 \/ c = Len(uids) \/ (c < Len(uids) /\ uids[c] # uids[c + 1])

\* C23: in a pre-materialized grouped loader the next map leads from cursor 0
\* through strictly increasing cursors, each a key and (in the table as
\* expanded) a group boundary, to pr_end exactly; pr is always one of them,
\* the lookup never fails, and a batch holds the rows between the cursor it
\* was asked at and the next one.
C23_CursorChain ==
    (kind = "grouped" /\ pc = "ready" /\ ~neg_sample_args.real_time) =>
        LET cs == Cursors(next, 0, pr_end + 1)
            at == {i \in 1..Len(cs) : cs[i] = pr}
        IN  /\ cs[Len(cs)] = pr_end
            /\ \A i \in 1..(Len(cs) - 1) : cs[i] \in DOMAIN next /\ cs[i] < cs[i + 1]
            /\ passes = 0 => \A i \in 1..Len(cs) : GroupBoundary(cs[i])
            /\ at # {}
            /\ result # "KeyError"
            /\ (op = "next" /\ result = "batch") =>
                  \E i \in at : /\ i > 1
                                /\ batch = DataframeToInteraction(
                                       SliceTable(inter_feat, cs[i - 1], cs[i]),
                                       field2type).inter

C23_Witness ==
    /\ kind = "grouped"
    /\ pc = "ready"
    /\ ~neg_sample_args.real_time
    /\ Len(Cursors(next, 0, pr_end + 1)) > 3
    /\ passes = 1
    /\ op = "next"
    /\ result = "batch"
    /\ pr = pr_end

\* The rows of the batch yielded that belong to user u and carry label l.
BatchRows(u, l) ==
    LET uids == Get(batch.interaction, uid_field).data
        labels == Get(batch.interaction, label_field).data
    IN  {i \in 1..Len(uids) : uids[i] = u /\ labels[i] = l}

\* C24: a batch of a pointwise 'by' loader, real-time or pre-materialized,
\* holds complete groups: per user, and so in all, `by` times as many
\* label-0 rows as label-1 rows.
C24_CompleteGroups ==
    (kind = "inter" /\ dl_format = "pointwise" /\ op = "next" /\ result = "batch") =>
        \A u \in Range(Get(batch.interaction, uid_field).data) :
            Cardinality(BatchRows(u, 0)) = neg_sample_args.by * Cardinality(BatchRows(u, 1))

\* C25: a grouped loader constructed from the neg_sample_args mapping a
\* full-mode loader was constructed from is in full mode too, and what it
\* samples holds every item for every user.
C25_SharedSettings ==
    [][ (pc = "ready" /\ full /\ op' = "init") =>
            /\ full'
            /\ sampling'.called =>
                  Rows(sampling'.output) = Rows(uid2items) * item_num ]_vars

\* Rows a+1..b of a table, in table order.
TableRows(t, a, b) ==
    [c \in 1..Len(t) |-> [name |-> t[c].name,
                          values |-> [j \in 1..(b - a) |-> t[c].values[a + j]]]]

\* C26: a pass of an interaction-based loader starts at pr = 0; every next()
\* that does not end the pass takes the rows pr .. min(pr + step, pr_end) - 1
\* of the loader's table, in table order, and leaves pr at pr + step, so the
\* next slice starts where this one ended; the pass ends only once pr has
\* reached pr_end. In real-time pointwise mode the rows of the slice are the
\* label-1 rows of what is yielded, once each.
C26_ConsecutiveSlices ==
    [][ /\ (kind = "inter" /\ op' = "init" /\ pc' = "ready") => pr' = 0
        /\ (kind = "inter" /\ pc = "ready" /\ op' = "next") =>
              IF result' = "StopIteration"
              THEN pr >= pr_end /\ pr' = 0
              ELSE /\ pr < pr_end
                   /\ pr' = pr + step
                   /\ LET hi == Min(pr + step, pr_end)
                          cur == TableRows(inter_feat, pr, hi)
                          out == sampling'.output
                      IN  IF neg_sample_args.real_time
                          THEN /\ sampling'.called
                               /\ sampling'.input = cur
                               /\ dl_format = "pointwise" =>
                                     /\ \A j \in 1..Rows(out) :
                                            (Get(out, label_field)[j] = 1) <=> (j <= hi - pr)
                                     /\ \A j \in 1..(hi - pr) : \A c \in 1..Len(cur) :
                                            Get(out, cur[c].name)[j] = cur[c].values[j]
                          ELSE result' = "batch" =>
                                  batch' = DataframeToInteraction(cur, field2type).inter ]_vars

C26_Witness ==
    /\ kind = "inter"
    /\ dl_format = "pointwise"
    /\ neg_sample_args.real_time
    /\ op = "next"
    /\ result = "batch"
    /\ pr > step + step
    /\ pr > pr_end
    /\ Rows(sampling.input) = pr_end - (pr - step)

\* C27: a loader whose pass is under way reaches the end-of-pass signal; an
\* interaction-based or real-time grouped loader reaches it with pr at the
\* first multiple of step that is >= pr_end, each batch having moved pr on by
\* step, which makes ceil(pr_end / step) batches; after the signal pr is 0 and
\* below pr_end, so the next next() call yields a batch.
C27_Termination ==
    /\ [][ ((kind = "inter" \/ neg_sample_args.real_time) /\ pc = "ready" /\ op' = "next") =>
              IF result' = "StopIteration"
              THEN pr % step = 0 /\ pr - step < pr_end /\ pr_end <= pr
              ELSE pr' = pr + step ]_vars
    /\ []((op = "next" /\ result = "StopIteration") => (pr = 0 /\ pr < pr_end))
    /\ (pc = "ready" /\ passes = 0) ~> (op = "next" /\ result = "StopIteration")

C27_Witness ==
    /\ op = "next"
    /\ result = "StopIteration"
    /\ passes = 1
    /\ pr_end > step + step

\* The positives per batch of a pointwise 'by' loader asked for batch size b.
PositivesPerBatch == (arg_batch_size \div (1 + neg_sample_args.by)) + 1

\* The positive rows of the dataset the pointwise loader was built on.
PositiveRows ==
    IF neg_sample_args.real_time THEN Rows(inter_feat)
    ELSE Rows(inter_feat) \div (1 + neg_sample_args.by)

\* C28: with n positive rows, by = k, times = 1 + k and s = floor(b / times)
\* + 1, the i-th batch of a pointwise 'by' loader, real-time or
\* pre-materialized alike, has s * times rows if i * s <= n and
\* (n mod s) * times rows otherwise, and the pass has a batch i exactly for
\* (i - 1) * s < n: the same count and the same sizes in both modes.
C28_SameBatches ==
    (kind = "inter" /\ dl_format = "pointwise" /\ pc = "ready" /\ op = "next"
        /\ result = "batch") =>
        LET i == pr \div step
            n == PositiveRows
        IN  /\ pr = i * step
            /\ (i - 1) * PositivesPerBatch < n
            /\ (i * PositivesPerBatch >= n) <=> EndOfPass(pr, pr_end)
            /\ batch.length =
                   IF i * PositivesPerBatch <= n
                   THEN PositivesPerBatch * (1 + neg_sample_args.by)
                   ELSE (n % PositivesPerBatch) * (1 + neg_sample_args.by)

C28_Witness ==
    /\ kind = "inter"
    /\ dl_format = "pointwise"
    /\ ~neg_sample_args.real_time
    /\ op = "next"
    /\ result = "batch"
    /\ pr > step + step
    /\ PositiveRows % PositivesPerBatch # 0
    /\ batch.length = (PositiveRows % PositivesPerBatch) * times
    /\ neg_sample_args.by > 1

\* Row i of a table, and how often a row occurs in it.
TableRow(t, i) == [c \in 1..Len(t) |-> t[c].values[i]]
Occurrences(t, r) == Cardinality({i \in 1..Rows(t) : TableRow(t, i) = r})

\* Table b holds the rows of table a, each as often, in some order.
SameRows(a, b) ==
    /\ Len(a) = Len(b)
    /\ \A c \in 1..Len(a) : a[c].name = b[c].name
    /\ Rows(a) = Rows(b)
    /\ \A i \in 1..Rows(a) : Occurrences(a, TableRow(a, i)) = Occurrences(b, TableRow(a, i))

\* C29: once a grouped loader is constructed, no next() call, end-of-pass
\* reset, shuffle or set_batch_size changes its `next` map or its pr_end; in
\* pre-materialized mode every batch call goes from pr to next[pr] and yields
\* next[pr] - pr rows, in every pass; an end-of-pass shuffle reorders the rows
\* of the expanded table in pre-materialized mode and the rows of the group
\* table in real-time mode and leaves the other table as it is; no other call
\* changes either table.
C29_NextMapFixed ==
    [][ (kind = "grouped" /\ pc = "ready" /\ op' # "init") =>
          /\ next' = next
          /\ pr_end' = pr_end
          /\ (~neg_sample_args.real_time /\ op' = "next" /\ result' = "batch") =>
                (pr' = next[pr] /\ batch'.length = next[pr] - pr)
          /\ IF op' = "next" /\ result' = "StopIteration" /\ shuffle
             THEN IF neg_sample_args.real_time
                  THEN SameRows(uid2items, uid2items') /\ inter_feat' = inter_feat
                  ELSE SameRows(inter_feat, inter_feat') /\ uid2items' = uid2items
             ELSE inter_feat' = inter_feat /\ uid2items' = uid2items ]_vars

C29_Witness ==
    /\ kind = "grouped"
    /\ ~neg_sample_args.real_time
    /\ shuffle
    /\ passes = 1
    /\ op = "next"
    /\ result = "batch"
    /\ pr = pr_end
    /\ Cardinality(DOMAIN next) > 2
    /\ \A seed \in Seeds :
          inter_feat # GroupedNegSampling(uid2items, neg_sample_args.to, full, step,
                                          <<>>, seed).output

\* C30: pointwise 'by' sampling of a slice of n rows, the sampler having
\* listed the k ids drawn for row j's user at positions (j - 1) * k + 1 ..
\* j * k, gives every label-0 row the user id and the other non-item columns
\* of some row j of the slice and an item id that is one of the ids drawn for
\* that row's user.
C30_NegativesOfUser ==
    (kind = "inter" /\ dl_format = "pointwise" /\ sampling.called) =>
        LET src == sampling.input
            dst == sampling.output
            k == neg_sample_args.by
        IN  \A r \in 1..Rows(dst) :
                Get(dst, label_field)[r] = 0 =>
                    \E j \in 1..Rows(src) :
                        /\ \A c \in 1..Len(src) :
                              src[c].name # iid_field =>
                                  Get(dst, src[c].name)[r] = src[c].values[j]
                        /\ \E q \in 1..k :
                              Get(dst, iid_field)[r] = sampling.neg_iids[(j - 1) * k + q]
====
